---- MODULE Spec2Model ----
(***************************************************************************)
(* Model of the Flexible Flyer configurator (src/app.js, first copy,       *)
(* lines 1-1335): the OpenSCAD compiler session (state.openscad), the      *)
(* updateModel request pipeline, and STL format detection.                 *)
(*                                                                         *)
(* JavaScript runs one macrotask at a time.  Every action below is one     *)
(* macrotask: a click that starts updateModel, or the settling of one      *)
(* awaited external operation (dynamic import / script load, module        *)
(* instantiation, a poll timer, a fetch).  Continuations that only pass    *)
(* through already-settled promises (microtasks) run inside the same       *)
(* action, because no other request can run between them.                  *)
(***************************************************************************)
EXTENDS Integers, Sequences, FiniteSets, TLC

\* ------------------------------------------------------------------ bounds
\* Number of updateModel invocations (clicks, tab switches, config loads).
NumCallers == 2
\* Longest triangle list that is exported and read back.
MaxTriangles == 2
\* The min and max attributes of the range inputs (set by the page).
SliderMin == 0
SliderMax == 200
\* Form operations followed in one run of the assembly specification.
MaxFormOps == 4

\* ------------------------------------------------------- program constants
NumBases == 6
NumModelFiles == 8
NumFonts == 3
BinaryMinSize == 84
HeaderLen == 80
Stride == 50
DefaultPalmWidth == 70
DefaultPalmLength == 100
PreviewHeight == 12

Callers == 1..NumCallers
NoModule == 0

VARIABLES
  openscad,        \* state.openscad: module, loading, loaded, unavailable, modelsLoaded
  windowOpenSCAD,  \* typeof window.OpenSCAD !== 'undefined'
  instInFlight,    \* window.OpenSCAD(...) promises not yet settled
  instCount,       \* window.OpenSCAD(...) calls made so far (also names the instances)
  dead,            \* module instances whose runtime has aborted
  preloaded,       \* module instances whose FS got a complete ensureScadModels pass
  displayed,       \* what modelGroup shows, and which request put it there
  group,           \* modelGroup.children
  scadFile,        \* per module instance: the request whose text model.scad holds
  gaps,            \* module instances for which a fetch of a model file failed
  pc,              \* where each updateModel request is suspended
  idx,             \* loop index of the loop the request is suspended in
  inst,            \* instance the request is instantiating
  phase,           \* which ensureOpenSCADModule call the request is in
  attempts,        \* runOnce invocations of the request's compileSCADToSTL
  calls,           \* mod.callMain invocations of the request
  exitStatus,      \* what the most recent mod.callMain returned, if it returned
  mod,             \* the request's module handle (the local `mod`)
  err,             \* the error the request last threw
  outcome,         \* how the request ended
  params,          \* the request's parameters (readParameters at the click)
  data,            \* codec: the input of bufferGeometryFromSTL
  decoded,         \* codec: the decoder it selected and its result
  scene,           \* export: modelGroup.children, each with the triangles of its subtree
  windowJSZip,     \* export: window.JSZip is defined
  exportPc,        \* export: where exportSTLComponentsZip is suspended
  zip,             \* export: the entries of the JSZip object being filled
  download,        \* export: the file handed to downloadBlob last
  reread,          \* export: what decoding an encoded triangle list gave
  ui,              \* form: the value / checked state of the controls
  configOverrides, \* state.configOverrides
  activeTab,       \* state.activeTab
  scad,            \* the program text of the updateModel call just made
  cfg,             \* the configuration object of the applyConfig call just made
  snapshot,        \* the document saveConfig downloaded last
  formOps          \* form operations made so far

vars == <<openscad, windowOpenSCAD, instInFlight, instCount, dead, preloaded,
          displayed, group, scadFile, gaps, pc, idx, inst, phase, attempts, calls, exitStatus, mod, err,
          outcome, params, data, decoded,
          scene, windowJSZip, exportPc, zip, download, reread,
          ui, configOverrides, activeTab, scad, cfg, snapshot, formOps>>

sessionVars == <<openscad, windowOpenSCAD, instInFlight, instCount, dead, preloaded,
                 displayed, group, scadFile, gaps, pc, idx, inst, phase, attempts, calls, exitStatus, mod, err,
                 outcome, params>>

codecVars == <<data, decoded>>

exportVars == <<scene, windowJSZip, exportPc, zip, download, reread>>

formVars == <<ui, configOverrides, activeTab, scad, cfg, snapshot, formOps>>

\* ===================================================================== codec
\* A buffer is a sequence of byte values; the sampled buffers hold bytes below
\* 128 only, for which TextDecoder('utf-8') maps one byte to one character.

Min(a, b) == IF a < b THEN a ELSE b

\* String.prototype.trim: the white-space characters below 128.
IsSpace(b) == b \in {9, 10, 11, 12, 13, 32}

\* The character class [\-+eE0-9\.] of patternVertex.
IsNumCh(b) == b \in ({43, 45, 46, 69, 101} \cup (48..57))

\* String.prototype.toLowerCase on one character.
ToLowerCh(b) == IF b >= 65 /\ b <= 90 THEN b + 32 ELSE b

ToLowerCase(s) == [i \in 1..Len(s) |-> ToLowerCh(s[i])]

Trim(s) ==
  LET keep == {i \in 1..Len(s) : ~IsSpace(s[i])}
  IN IF keep = {} THEN <<>>
     ELSE LET lo == CHOOSE i \in keep : \A j \in keep : i <= j
              hi == CHOOSE i \in keep : \A j \in keep : i >= j
          IN SubSeq(s, lo, hi)

StartsWith(s, t) == Len(s) >= Len(t) /\ SubSeq(s, 1, Len(t)) = t

SolidKeyword == <<115, 111, 108, 105, 100>>
VertexKeyword == <<118, 101, 114, 116, 101, 120>>

\* looksLikeASCII: a buffer below the binary minimum size is reported as not ASCII.
looksLikeASCII(arrayBuffer) ==
  IF Len(arrayBuffer) < BinaryMinSize THEN FALSE
  ELSE StartsWith(ToLowerCase(Trim(SubSeq(arrayBuffer, 1, Min(HeaderLen, Len(arrayBuffer))))),
                  SolidKeyword)

\* End of the maximal run of \s starting at i.
SkipSpace(s, i) ==
  CHOOSE j \in i..(Len(s) + 1) :
    /\ j = Len(s) + 1 \/ ~IsSpace(s[j])
    /\ \A k \in i..(j - 1) : IsSpace(s[k])

\* End of the maximal run of [\-+eE0-9\.] starting at i.
SkipNum(s, i) ==
  CHOOSE j \in i..(Len(s) + 1) :
    /\ j = Len(s) + 1 \/ ~IsNumCh(s[j])
    /\ \A k \in i..(j - 1) : IsNumCh(s[k])

\* patternVertex matched at position p: the index after the match, or 0.  The two
\* character classes are disjoint, so the greedy runs are the only way to match.
MatchVertexAt(s, p) ==
  IF p + 5 > Len(s) \/ SubSeq(s, p, p + 5) # VertexKeyword THEN 0
  ELSE LET a1 == SkipSpace(s, p + 6)
           b1 == SkipNum(s, a1)
           a2 == SkipSpace(s, b1)
           b2 == SkipNum(s, a2)
           a3 == SkipSpace(s, b2)
           b3 == SkipNum(s, a3)
       IN IF a1 > p + 6 /\ b1 > a1 /\ a2 > b1 /\ b2 > a2 /\ a3 > b2 /\ b3 > a3
          THEN b3 ELSE 0

\* The while loop over patternVertex.exec(text).  A match holds the letter v
\* only at its start, so no match starts inside another and the loop finds
\* exactly the positions where the pattern matches.
CountVertexMatches(s) == Cardinality({p \in 1..Len(s) : MatchVertexAt(s, p) # 0})

\* bufferGeometryFromAsciiSTL: one position per match; it never throws.
bufferGeometryFromAsciiSTL(text) ==
  [path |-> "ascii", threw |-> FALSE, vertices |-> CountVertexMatches(text),
   normals |-> "computed"]

\* dv.getUint32(80, true)
Uint32At80(b) == b[81] + 256 * b[82] + 65536 * b[83] + 16777216 * b[84]

\* bufferGeometryFromBinarySTL: DataView reads past the end throw a RangeError;
\* the last byte read of record i is at offset 84 + i*50 + 47, so all records
\* are readable iff 50*faces + 82 <= byteLength (written with a division so
\* that a large declared count stays within 32-bit integers).
bufferGeometryFromBinarySTL(arrayBuffer) ==
  IF Len(arrayBuffer) < BinaryMinSize
  THEN [path |-> "binary", threw |-> TRUE, vertices |-> 0, normals |-> "none"]
  ELSE LET faces == Uint32At80(arrayBuffer)
       IN IF faces > 0 /\ (Len(arrayBuffer) < BinaryMinSize + 48
                          \/ faces > (Len(arrayBuffer) - BinaryMinSize + 2) \div Stride)
          THEN [path |-> "binary", threw |-> TRUE, vertices |-> 0, normals |-> "none"]
          ELSE [path |-> "binary", threw |-> FALSE, vertices |-> 3 * faces,
                normals |-> "stored"]

\* bufferGeometryFromSTL(data)
bufferGeometryFromSTL(d) ==
  IF d.isString THEN bufferGeometryFromAsciiSTL(d.bytes)
  ELSE IF looksLikeASCII(d.bytes) THEN bufferGeometryFromAsciiSTL(d.bytes)
  ELSE bufferGeometryFromBinarySTL(d.bytes)

\* The decoder the catch block of updateModel's then-handler runs after the
\* decoder named `first` threw: the bytes are decoded as text and the text goes
\* through the string branch of bufferGeometryFromSTL, whichever decoder failed.
RecoveryDecoder(first) == "ascii"

\* The decode in updateModel's second then-handler: on a throw, decode the bytes
\* as text and parse again; if that throws too, the first error is rethrown.
DecodeForDisplay(stl) ==
  LET g == bufferGeometryFromSTL([isString |-> FALSE, bytes |-> stl])
  IN IF ~g.threw THEN g
     ELSE LET g2 == bufferGeometryFromSTL([isString |-> TRUE, bytes |-> stl])
          IN IF g2.threw THEN g ELSE g2

\* ------------------------------------------------------------ text encoding
\* Numbers are integers here: String(x) is then an optional minus sign and the
\* decimal digits, and parseFloat reads such a prefix back.
RECURSIVE DigitsOf(_)
DigitsOf(n) == IF n < 10 THEN <<48 + n>> ELSE Append(DigitsOf(n \div 10), 48 + (n % 10))

\* `${x}` for a number x.
NumberToString(x) == IF x < 0 THEN <<45>> \o DigitsOf(0 - x) ELSE DigitsOf(x)

NotANumber == "NaN"
OtherNumber == "not an integer"

IsDigit(b) == b >= 48 /\ b <= 57

RECURSIVE DigitsValue(_)
DigitsValue(ds) ==
  IF ds = <<>> THEN 0 ELSE 10 * DigitsValue(SubSeq(ds, 1, Len(ds) - 1)) + (ds[Len(ds)] - 48)

\* parseFloat on a run of [\-+eE0-9\.]: the longest numeric prefix; NaN when
\* there is none.  A fraction or an exponent after the integer part gives a
\* number that is not followed further here.
parseFloat(run) ==
  LET signed == run # <<>> /\ run[1] \in {43, 45}
      from == IF signed THEN 2 ELSE 1
      to == CHOOSE j \in from..(Len(run) + 1) :
              /\ j = Len(run) + 1 \/ ~IsDigit(run[j])
              /\ \A k \in from..(j - 1) : IsDigit(run[k])
      val == DigitsValue(SubSeq(run, from, to - 1))
  IN IF to = from
     THEN (IF to <= Len(run) /\ run[to] = 46 THEN OtherNumber ELSE NotANumber)
     ELSE IF to <= Len(run) /\ run[to] \in {46, 69, 101} THEN OtherNumber
     ELSE IF signed /\ run[1] = 45 THEN 0 - val ELSE val

\* The three captured groups of the match of patternVertex at p, parsed.
VertexAt(s, p) ==
  LET a1 == SkipSpace(s, p + 6)
      b1 == SkipNum(s, a1)
      a2 == SkipSpace(s, b1)
      b2 == SkipNum(s, a2)
      a3 == SkipSpace(s, b2)
      b3 == SkipNum(s, a3)
  IN <<parseFloat(SubSeq(s, a1, b1 - 1)), parseFloat(SubSeq(s, a2, b2 - 1)),
       parseFloat(SubSeq(s, a3, b3 - 1))>>

\* The position attribute bufferGeometryFromAsciiSTL builds: one vertex per
\* match, in document order.
AsciiPositions(text) ==
  LET P == {p \in 1..Len(text) : MatchVertexAt(text, p) # 0}
      Nth(k) == CHOOSE p \in P : Cardinality({q \in P : q < p}) = k - 1
  IN [k \in 1..Cardinality(P) |-> VertexAt(text, Nth(k))]

\* The positions of the geometry bufferGeometryFromSTL(d) returns.  The floats
\* of a binary record are not followed: each of its vertices is one token.
PositionsFromSTL(d) ==
  LET g == bufferGeometryFromSTL(d)
  IN IF g.threw THEN <<>>
     ELSE IF g.path = "ascii" THEN AsciiPositions(d.bytes)
     ELSE [k \in 1..g.vertices |-> <<OtherNumber, OtherNumber, OtherNumber>>]

SolidPrefix == <<115, 111, 108, 105, 100, 32>>
EndSolidPrefix == <<101, 110, 100, 115, 111, 108, 105, 100, 32>>
FacetNormalPrefix == <<32, 32, 102, 97, 99, 101, 116, 32, 110, 111, 114, 109, 97, 108, 32>>
OuterLoopLine == <<32, 32, 32, 32, 111, 117, 116, 101, 114, 32, 108, 111, 111, 112, 10>>
VertexPrefix == <<32, 32, 32, 32, 32, 32, 118, 101, 114, 116, 101, 120, 32>>
EndLoopLine == <<32, 32, 32, 32, 101, 110, 100, 108, 111, 111, 112, 10>>
EndFacetLine == <<32, 32, 101, 110, 100, 102, 97, 99, 101, 116, 10>>
NewLine == <<10>>

\* `${v.x} ${v.y} ${v.z}`
VectorText(v) ==
  NumberToString(v[1]) \o <<32>> \o NumberToString(v[2]) \o <<32>> \o NumberToString(v[3])

FacetText(t) ==
  FacetNormalPrefix \o VectorText(t.n) \o NewLine
    \o OuterLoopLine
    \o VertexPrefix \o VectorText(t.a) \o NewLine
    \o VertexPrefix \o VectorText(t.b) \o NewLine
    \o VertexPrefix \o VectorText(t.c) \o NewLine
    \o EndLoopLine
    \o EndFacetLine

RECURSIVE FacetsText(_)
FacetsText(triangles) ==
  IF triangles = <<>> THEN <<>>
  ELSE FacetText(Head(triangles)) \o FacetsText(Tail(triangles))

\* trianglesToAsciiSTL(triangles, name)
trianglesToAsciiSTL(triangles, name) ==
  SolidPrefix \o name \o NewLine \o FacetsText(triangles) \o EndSolidPrefix \o name \o NewLine

\* The vertices of a triangle list, in order.
RECURSIVE VerticesOf(_)
VerticesOf(triangles) ==
  IF triangles = <<>> THEN <<>>
  ELSE <<Head(triangles).a, Head(triangles).b, Head(triangles).c>> \o VerticesOf(Tail(triangles))

\* Sampled inputs: a head, padded with a fill byte to a length, with the low
\* byte of the triangle count (offset 80) set when the buffer is long enough.
MkBuf(head, len, fill, cnt) ==
  [i \in 1..len |-> IF i <= Len(head) THEN head[i]
                    ELSE IF i = HeaderLen + 1 THEN cnt ELSE fill]

SampleHeads ==
  { <<>>,
    SolidKeyword,
    <<32, 10, 32, 83, 111, 76, 105, 68, 32, 120>>,
    <<120, 115, 111, 108, 105, 100>>,
    <<115, 111, 108, 105>>,
    <<115,111,108,105,100,32,116,10,118,101,114,116,101,120,32,48,32,48,32,48,10,
      118,101,114,116,101,120,32,49,32,48,32,48,10,118,101,114,116,101,120,32,48,
      32,49,101,48,32,48,10>> }

SampleLens == {0, 5, 49, 83, 84, 85, 132, 134, 184}

SampleBuffers ==
  {MkBuf(h, n, f, k) : h \in SampleHeads, n \in SampleLens, f \in {0, 32}, k \in {0, 1, 2}}

SampleData == [isString : BOOLEAN, bytes : SampleBuffers]

NoData == [isString |-> FALSE, bytes |-> <<>>]
NoGeometry == [path |-> "none", threw |-> FALSE, vertices |-> 0, normals |-> "none"]

\* =================================================================== session
\* The whole session-side state as one record, so that the synchronous parts of
\* the handlers compose as functions from state to state.
World ==
  [openscad |-> openscad, windowOpenSCAD |-> windowOpenSCAD,
   instInFlight |-> instInFlight, instCount |-> instCount, dead |-> dead,
   preloaded |-> preloaded, displayed |-> displayed, group |-> group,
   scadFile |-> scadFile, gaps |-> gaps, pc |-> pc, idx |-> idx,
   inst |-> inst, phase |-> phase, attempts |-> attempts, calls |-> calls,
   exitStatus |-> exitStatus, mod |-> mod, err |-> err, outcome |-> outcome,
   params |-> params]

Commit(w) ==
  /\ openscad' = w.openscad
  /\ windowOpenSCAD' = w.windowOpenSCAD
  /\ instInFlight' = w.instInFlight
  /\ instCount' = w.instCount
  /\ dead' = w.dead
  /\ preloaded' = w.preloaded
  /\ displayed' = w.displayed
  /\ group' = w.group
  /\ scadFile' = w.scadFile
  /\ gaps' = w.gaps
  /\ pc' = w.pc
  /\ idx' = w.idx
  /\ inst' = w.inst
  /\ phase' = w.phase
  /\ attempts' = w.attempts
  /\ calls' = w.calls
  /\ exitStatus' = w.exitStatus
  /\ mod' = w.mod
  /\ err' = w.err
  /\ outcome' = w.outcome
  /\ params' = w.params
  /\ UNCHANGED <<codecVars, exportVars, formVars>>

\* Errors, by what their message says.
NoError == [kind |-> "none", code |-> 0]
ErrNotAvailable == [kind |-> "not available", code |-> 0]
ErrNotLoaded == [kind |-> "module not loaded", code |-> 0]
ErrExit(code) == [kind |-> "exited with code", code |-> code]
ErrAlreadyAborted == [kind |-> "program has already aborted", code |-> 0]
ErrOther == [kind |-> "other", code |-> 0]
ErrDecode == [kind |-> "decode", code |-> 0]

\* msg.includes('program has already aborted')
IsAbortSignature(e) == e.kind = "program has already aborted"

\* The promise returned by ensureOpenSCADModule resolved with value m.
Ensured(w, c, m) == [w EXCEPT !.pc[c] = "ensured", !.mod[c] = m]

\* const mod = await window.OpenSCAD({...}): the call starts an instantiation.
Instantiate(w, c) ==
  [w EXCEPT !.pc[c] = "inst", !.idx[c] = 0, !.inst[c] = w.instCount + 1,
            !.instCount = @ + 1, !.instInFlight = @ + 1]

\* check() of the waiting branch: resolve when loaded, else setTimeout(check, 50).
PollCheck(w, c) ==
  IF w.openscad.loaded /\ w.openscad.module # NoModule
  THEN Ensured(w, c, w.openscad.module)
  ELSE [w EXCEPT !.pc[c] = "poll"]

EnsureSync_NoUnavailableCheck(w, c) ==
  IF w.openscad.loaded /\ w.openscad.module # NoModule
  THEN Ensured(w, c, w.openscad.module)
  ELSE IF w.openscad.loading THEN PollCheck(w, c)
  ELSE LET w1 == [w EXCEPT !.openscad.loading = TRUE]
       IN IF ~w1.windowOpenSCAD
          THEN [w1 EXCEPT !.pc[c] = "lookup", !.idx[c] = 1]
          ELSE Instantiate(w1, c)

\* ensureOpenSCADModule up to its first await.
EnsureSync(w, c) ==
  IF w.openscad.unavailable THEN Ensured(w, c, NoModule)
  ELSE IF w.openscad.loaded /\ w.openscad.module # NoModule
  THEN Ensured(w, c, w.openscad.module)
  ELSE IF w.openscad.loading THEN PollCheck(w, c)
  ELSE LET w1 == [w EXCEPT !.openscad.loading = TRUE]
       IN IF ~w1.windowOpenSCAD
          THEN [w1 EXCEPT !.pc[c] = "lookup", !.idx[c] = 1]
          ELSE Instantiate(w1, c)

\* The catch block of ensureOpenSCADModule.
LoadCatch(w, c) ==
  Ensured([w EXCEPT !.openscad.loading = FALSE, !.openscad.loaded = FALSE,
                    !.openscad.module = NoModule, !.openscad.unavailable = TRUE],
          c, NoModule)

\* One base of the loader lookup settled: the dynamic import gave a factory
\* ("import"), or the script tag loaded and window.OpenSCAD is defined
\* ("script"), or neither ("none").  After the last base the lookup throws.
LookupStep(w, c, r) ==
  IF r \in {"import", "script"}
  THEN Instantiate([w EXCEPT !.windowOpenSCAD = TRUE], c)
  ELSE IF w.idx[c] < NumBases THEN [w EXCEPT !.idx[c] = @ + 1]
  ELSE LoadCatch(w, c)

\* The instantiation settled.
InstDone(w, c, ok) ==
  LET w1 == [w EXCEPT !.instInFlight = @ - 1]
  IN IF ok
     THEN Ensured([w1 EXCEPT !.openscad.module = w.inst[c], !.openscad.loaded = TRUE],
                  c, w.inst[c])
     ELSE LoadCatch(w1, c)

\* buildPreviewGeometryFromParameters: Number(x) || dflt, floored at 1.
PreviewDim(x, dflt) == IF x = 0 THEN dflt ELSE IF x < 1 THEN 1 ELSE x

buildPreviewGeometryFromParameters(p) ==
  [kind |-> "placeholder", width |-> PreviewDim(p.palm_width, DefaultPalmWidth),
   height |-> PreviewHeight, length |-> PreviewDim(p.palm_length, DefaultPalmLength)]

\* while (modelGroup.children.length) { pop; dispose }
RECURSIVE PopAll(_)
PopAll(children) ==
  IF children = <<>> THEN children ELSE PopAll(SubSeq(children, 1, Len(children) - 1))

\* A variant that adds the new mesh to the meshes already there.
replaceModelWithGeometry_KeepsChildren(w, c, geometry) ==
  LET mesh == [geometry |-> geometry, by |-> c]
  IN [w EXCEPT !.displayed = mesh, !.group = Append(@, mesh)]

\* replaceModelWithGeometry: the group's children are popped, the new mesh added.
replaceModelWithGeometry(w, c, geometry) ==
  LET mesh == [geometry |-> geometry, by |-> c]
  IN [w EXCEPT !.displayed = mesh, !.group = Append(PopAll(@), mesh)]

\* The request's promise chain has ended: its locals are gone.
Finish(w, c, how) ==
  [w EXCEPT !.outcome[c] = how, !.pc[c] = "done", !.idx[c] = 0,
            !.inst[c] = NoModule, !.mod[c] = NoModule, !.phase[c] = "none"]

UpdateCatch_KeepsModel(w, c, e) == Finish([w EXCEPT !.err[c] = e], c, "fallback")

\* The catch handler of updateModel: placeholder geometry from the parameters.
UpdateCatch(w, c, e) ==
  LET w1 == replaceModelWithGeometry(w, c, buildPreviewGeometryFromParameters(w.params[c]))
  IN Finish([w1 EXCEPT !.err[c] = e], c, "fallback")

\* The second then-handler of updateModel: decode, show, report.  The shown
\* geometry remembers the buffer it was decoded from, and the request whose
\* text was in model.scad when the compiler ran.
UpdateThen(w, c, stl) ==
  LET g == DecodeForDisplay(stl)
  IN IF g.threw THEN UpdateCatch(w, c, ErrDecode)
     ELSE LET w1 == replaceModelWithGeometry(w, c,
                      [kind |-> "mesh", path |-> g.path, vertices |-> g.vertices,
                       source |-> stl, text |-> w.scadFile[w.mod[c]]])
          IN Finish(w1, c, "model")

\* runOnce threw e.
Throw(w, c, e) == [w EXCEPT !.pc[c] = "throw", !.err[c] = e]

\* runOnce from writing model.scad to the first font fetch.
AfterModels(w, c) ==
  [w EXCEPT !.scadFile[w.mod[c]] = c, !.pc[c] = "font", !.idx[c] = 1]

\* runOnce after `await ensureOpenSCADModule()`: the null check, then
\* ensureScadModels up to its first fetch.
RunAfterEnsure(w, c) ==
  IF w.mod[c] = NoModule THEN Throw(w, c, ErrNotLoaded)
  ELSE IF w.openscad.modelsLoaded THEN AfterModels(w, c)
  ELSE [w EXCEPT !.pc[c] = "models", !.idx[c] = 1]

\* runOnce up to its first suspension.
RunOnce(w, c) ==
  LET w1 == EnsureSync(w, c)
  IN IF w1.pc[c] = "ensured" THEN RunAfterEnsure(w1, c) ELSE w1

ResetSession_KeepsModels(w) ==
  [w EXCEPT !.openscad.loaded = FALSE, !.openscad.loading = FALSE,
            !.openscad.module = NoModule, !.openscad.unavailable = FALSE]

\* The reset in the catch block of compileSCADToSTL.
ResetSession(w) ==
  [w EXCEPT !.openscad.loaded = FALSE, !.openscad.loading = FALSE,
            !.openscad.module = NoModule, !.openscad.unavailable = FALSE,
            !.openscad.modelsLoaded = FALSE]

CompileCatch_RetriesAnyError(w, c) ==
  IF w.attempts[c] = 1
  THEN LET w1 == RunOnce(ResetSession([w EXCEPT !.attempts[c] = 2]), c)
       IN IF w1.pc[c] = "throw" THEN UpdateCatch(w1, c, w1.err[c]) ELSE w1
  ELSE UpdateCatch(w, c, w.err[c])

\* runOnce threw: the catch block of compileSCADToSTL on the first attempt (one
\* retry on the abort signature), plain propagation to updateModel otherwise.
CompileCatch(w, c) ==
  IF w.attempts[c] = 1 /\ IsAbortSignature(w.err[c])
  THEN LET w1 == RunOnce(ResetSession([w EXCEPT !.attempts[c] = 2]), c)
       IN IF w1.pc[c] = "throw" THEN UpdateCatch(w1, c, w1.err[c]) ELSE w1
  ELSE UpdateCatch(w, c, w.err[c])

\* Where runOnce's result goes: a throw to the catch, a suspension stays.
Settle(w, c) == IF w.pc[c] = "throw" THEN CompileCatch(w, c) ELSE w

\* compileSCADToSTL(scad) up to its first suspension.
CompileSCADToSTL(w, c) ==
  Settle(RunOnce([w EXCEPT !.attempts[c] = 1, !.phase[c] = "run"], c), c)

\* The first then-handler of updateModel.
UpdateAfterEnsure(w, c) ==
  IF w.mod[c] = NoModule THEN UpdateCatch(w, c, ErrNotAvailable)
  ELSE CompileSCADToSTL(w, c)

\* The continuation of a resolved ensureOpenSCADModule promise.
Resume(w, c) ==
  IF w.pc[c] # "ensured" THEN w
  ELSE IF w.phase[c] = "update" THEN UpdateAfterEnsure(w, c)
  ELSE Settle(RunAfterEnsure(w, c), c)

\* A variant in which a failed fetch of a model file fails the compile.
ModelsStep_FailsOnMiss(w, c, ok) ==
  IF w.idx[c] <= NumModelFiles
  THEN IF ok THEN [w EXCEPT !.idx[c] = @ + 1]
       ELSE Throw([w EXCEPT !.gaps = @ \cup {w.mod[c]}], c, ErrOther)
  ELSE AfterModels([w EXCEPT !.openscad.modelsLoaded = TRUE,
                             !.preloaded = @ \cup {w.mod[c]}], c)

\* One file of ensureScadModels settled: fetched and written (ok), or skipped
\* with a warning.  The manifest files come first, then the optional STL; then
\* modelsLoaded is set and runOnce goes on.
ModelsStep(w, c, ok) ==
  IF w.idx[c] <= NumModelFiles
  THEN IF ok THEN [w EXCEPT !.idx[c] = @ + 1]
       ELSE [w EXCEPT !.idx[c] = @ + 1, !.gaps = @ \cup {w.mod[c]}]
  ELSE AfterModels([w EXCEPT !.openscad.modelsLoaded = TRUE,
                             !.preloaded = @ \cup {w.mod[c]}], c)

\* What mod.callMain and mod.FS.readFile can do, seen from the caller: "ok"
\* (status 0 and an output file), "exit" (non-zero status), "aborted" (throws the
\* already-aborted message), "crash" (the runtime aborts with another message),
\* "nooutput" (status 0, reading model.stl throws).  A runtime that has aborted
\* throws the already-aborted message on every later call.
CallOutcomes(w, m) ==
  IF m \in w.dead THEN {"aborted"}
  ELSE {"ok", "exit", "aborted", "crash", "nooutput"}

ExitCodes == {1, 2}

NoStatus == [returned |-> FALSE, code |-> 0]
Returned(code) == [returned |-> TRUE, code |-> code]

\* mod.callMain(args) is entered.
Called(w, c) == [w EXCEPT !.calls[c] = @ + 1, !.exitStatus = NoStatus]

CallMain_DropsCode(w, c, o, code, stl) ==
  LET w1 == Called(w, c)
  IN CASE o = "ok" -> UpdateThen([w1 EXCEPT !.exitStatus = Returned(0)], c, stl)
       [] o = "exit" -> Throw([w1 EXCEPT !.exitStatus = Returned(code)], c, ErrExit(0))
       [] o = "aborted" ->
            Throw([w1 EXCEPT !.dead = @ \cup {w.mod[c]}], c, ErrAlreadyAborted)
       [] o = "crash" -> Throw([w1 EXCEPT !.dead = @ \cup {w.mod[c]}], c, ErrOther)
       [] OTHER -> Throw([w1 EXCEPT !.exitStatus = Returned(0)], c, ErrOther)

\* callMain (the module exposes it), the status check and readFile; a result
\* goes to updateModel's then-handler.
CallMain(w, c, o, code, stl) ==
  LET w1 == Called(w, c)
  IN CASE o = "ok" -> UpdateThen([w1 EXCEPT !.exitStatus = Returned(0)], c, stl)
       [] o = "exit" -> Throw([w1 EXCEPT !.exitStatus = Returned(code)], c, ErrExit(code))
       [] o = "aborted" ->
            Throw([w1 EXCEPT !.dead = @ \cup {w.mod[c]}], c, ErrAlreadyAborted)
       [] o = "crash" -> Throw([w1 EXCEPT !.dead = @ \cup {w.mod[c]}], c, ErrOther)
       [] OTHER -> Throw([w1 EXCEPT !.exitStatus = Returned(0)], c, ErrOther)

\* One font fetch settled: a hit is written and ends the loop, a miss goes to
\* the next path; after the loop the compiler runs.
FontStep(w, c, hit, o, code, stl) ==
  IF ~hit /\ w.idx[c] < NumFonts THEN [w EXCEPT !.idx[c] = @ + 1]
  ELSE CallMain(w, c, o, code, stl)

\* The compiler's possible output files.
CompilerOutputs ==
  {MkBuf(h, n, 0, k) : h \in {<<>>, SolidKeyword}, n \in {49, 134}, k \in {0, 1}}

ParamChoices ==
  {[palm_width |-> 0, palm_length |-> 100], [palm_width |-> 80, palm_length |-> 0]}

NoParams == [palm_width |-> 0, palm_length |-> 0]

InitialCube == [geometry |-> [kind |-> "cube"], by |-> 0]

\* ==================================================================== export
\* A child of modelGroup is kept with the world-space triangles that
\* buildTrianglesFromObject collects from its subtree.  replaceModelWithGeometry
\* empties the group and adds one unnamed Mesh, so the group always holds
\* exactly one such child.
MeshChild(tris) == [isMesh |-> TRUE, isGroup |-> FALSE, name |-> <<>>, tris |-> tris]

SampleTriangles ==
  { [n |-> <<0, 0, 1>>, a |-> <<0, 0, 0>>, b |-> <<1, 0, 0>>, c |-> <<0, 1, 0>>],
    [n |-> <<0, 0, -1>>, a |-> <<-12, 7, 0>>, b |-> <<0, 105, 0>>, c |-> <<30, -4, 0>>] }

RECURSIVE ListsUpTo(_, _)
ListsUpTo(S, n) ==
  IF n = 0 THEN {<<>>}
  ELSE LET shorter == ListsUpTo(S, n - 1)
       IN shorter \cup {Append(l, x) : l \in shorter, x \in S}

SampleMeshes == ListsUpTo(SampleTriangles, MaxTriangles)

SampleScenes == {<<MeshChild(m)>> : m \in SampleMeshes}

\* The scene graphs exportSTLComponentsZip accepts: the root's children may be
\* meshes, groups or other objects (each kept with the triangles of its
\* subtree), named or not.
MaxChildren == 2

SceneChildren ==
  {[isMesh |-> k = "mesh", isGroup |-> k = "group", name |-> n, tris |-> m] :
     k \in {"mesh", "group", "other"}, n \in {<<>>, <<112>>},
     m \in {l \in SampleMeshes : Len(l) <= 1}}

SceneGraphs == ListsUpTo(SceneChildren, MaxChildren)

\* buildTrianglesFromObject(child)
buildTrianglesFromObject(child) == child.tris

\* buildTrianglesFromObject(modelGroup)
RECURSIVE TrianglesOfGroup(_)
TrianglesOfGroup(children) ==
  IF children = <<>> THEN <<>>
  ELSE buildTrianglesFromObject(Head(children)) \o TrianglesOfGroup(Tail(children))

ComponentPrefix == <<99, 111, 109, 112, 111, 110, 101, 110, 116, 95>>
ComponentGroupPrefix == <<99, 111, 109, 112, 111, 110, 101, 110, 116, 95, 103, 114, 111, 117, 112, 95>>
StlSuffix == <<46, 115, 116, 108>>
ComponentZero == <<99, 111, 109, 112, 111, 110, 101, 110, 116, 95, 48>>
CombinedName == <<112, 114, 111, 115, 116, 104, 101, 115, 105, 115, 95, 109, 111, 100, 101, 108>>
RoundTripName == <<120>>

\* child.name || (child.isGroup ? `component_group_${idx}` : `component_${idx}`)
ComponentName(child, index) ==
  IF child.name # <<>> THEN child.name
  ELSE IF child.isGroup THEN ComponentGroupPrefix \o NumberToString(index)
  ELSE ComponentPrefix \o NumberToString(index)

\* zip.file(name, content): an entry of that name is replaced.
ZipFile(z, file, content) ==
  {e \in z : e.file # file} \cup {[file |-> file, content |-> content]}

RECURSIVE ZipChildren_KeepsEmpty(_, _, _)
ZipChildren_KeepsEmpty(children, i, acc) ==
  IF i > Len(children) THEN acc
  ELSE LET child == children[i]
           tris == buildTrianglesFromObject(child)
           name == ComponentName(child, i - 1)
       IN IF ~child.isMesh /\ ~child.isGroup THEN ZipChildren_KeepsEmpty(children, i + 1, acc)
          ELSE ZipChildren_KeepsEmpty(children, i + 1,
                 [zip |-> ZipFile(acc.zip, name \o StlSuffix, trianglesToAsciiSTL(tris, name)),
                  count |-> acc.count + 1])

\* modelGroup.children.forEach((child, idx) => ...), from child i on.
RECURSIVE ZipChildren(_, _, _)
ZipChildren(children, i, acc) ==
  IF i > Len(children) THEN acc
  ELSE LET child == children[i]
           tris == buildTrianglesFromObject(child)
           name == ComponentName(child, i - 1)
       IN IF ~child.isMesh /\ ~child.isGroup THEN ZipChildren(children, i + 1, acc)
          ELSE IF tris = <<>> THEN ZipChildren(children, i + 1, acc)
          ELSE ZipChildren(children, i + 1,
                 [zip |-> ZipFile(acc.zip, name \o StlSuffix, trianglesToAsciiSTL(tris, name)),
                  count |-> acc.count + 1])

\* A variant without the fallback to the flattened root.
FillZip_NoFallback(children) ==
  LET r == ZipChildren(children, 1, [zip |-> {}, count |-> 0])
  IN [zip |-> r.zip, generate |-> r.count > 0]

\* exportSTLComponentsZip from `new JSZip()` to the await of generateAsync:
\* the entries, and whether there is anything to generate.
FillZip(children) ==
  LET r == ZipChildren(children, 1, [zip |-> {}, count |-> 0])
      all == TrianglesOfGroup(children)
  IN IF r.count > 0 THEN [zip |-> r.zip, generate |-> TRUE]
     ELSE IF all = <<>> THEN [zip |-> r.zip, generate |-> FALSE]
     ELSE [zip |-> ZipFile(r.zip, ComponentZero \o StlSuffix,
                           trianglesToAsciiSTL(all, ComponentZero)),
           generate |-> TRUE]

NoDownload == [kind |-> "none"]
NoReread == [done |-> FALSE]

\* The export side at rest, for the specifications that do not follow it.
ExportIdle ==
  /\ scene = <<MeshChild(<<>>)>>
  /\ windowJSZip = FALSE
  /\ exportPc = "idle"
  /\ zip = {}
  /\ download = NoDownload
  /\ reread = NoReread

\* ================================================================ parameters
\* JavaScript values.  A number is kept in ten-thousandths (Unit is 1), which
\* holds every default of the program (1.5875, 0.4, 1.25) exactly.
Unit == 10000

Num(x) == [t |-> "number", n |-> x, s |-> <<>>]
Bool(b) == [t |-> "boolean", n |-> IF b THEN 1 ELSE 0, s |-> <<>>]
Str(cs) == [t |-> "string", n |-> 0, s |-> cs]
Null == [t |-> "null", n |-> 0, s |-> <<>>]
NaNValue == [t |-> "NaN", n |-> 0, s |-> <<>>]
Undefined == [t |-> "undefined", n |-> 0, s |-> <<>>]

\* obj[k] on an object kept as a function from its keys.
Get(obj, k) == IF k \in DOMAIN obj THEN obj[k] ELSE Undefined

\* !!v
Truthy(v) ==
  \/ v.t = "number" /\ v.n # 0
  \/ v.t = "boolean" /\ v.n = 1
  \/ v.t = "string" /\ v.s # <<>>

\* Number.isFinite(v): no coercion.
IsFiniteNumber(v) == v.t = "number"

\* The four fraction digits of a value in ten-thousandths.
FracDigits(f) ==
  <<48 + (f \div 1000), 48 + ((f \div 100) % 10), 48 + ((f \div 10) % 10), 48 + (f % 10)>>

StripZeros(ds) ==
  LET keep == {i \in 1..Len(ds) : ds[i] # 48}
  IN IF keep = {} THEN <<>>
     ELSE SubSeq(ds, 1, CHOOSE i \in keep : \A j \in keep : j <= i)

Abs(x) == IF x < 0 THEN 0 - x ELSE x
SignText(x) == IF x < 0 THEN <<45>> ELSE <<>>

\* String(x) for a finite number x.
FixedToString(x) ==
  LET frac == StripZeros(FracDigits(Abs(x) % Unit))
  IN SignText(x) \o DigitsOf(Abs(x) \div Unit) \o (IF frac = <<>> THEN <<>> ELSE <<46>> \o frac)

\* x.toFixed(4)
ToFixed4(x) == SignText(x) \o DigitsOf(Abs(x) \div Unit) \o <<46>> \o FracDigits(Abs(x) % Unit)

TrueText == <<116, 114, 117, 101>>
FalseText == <<102, 97, 108, 115, 101>>
NullText == <<110, 117, 108, 108>>
NaNText == <<78, 97, 78>>
UndefinedText == <<117, 110, 100, 101, 102, 105, 110, 101, 100>>

\* String(v)
ToStr(v) ==
  CASE v.t = "number" -> FixedToString(v.n)
    [] v.t = "boolean" -> (IF v.n = 1 THEN TrueText ELSE FalseText)
    [] v.t = "string" -> v.s
    [] v.t = "null" -> NullText
    [] v.t = "NaN" -> NaNText
    [] OTHER -> UndefinedText

\* The longest prefix of cs, from position `from`, made of digits.
DigitRunEnd(cs, from) ==
  CHOOSE j \in from..(Len(cs) + 1) :
    /\ j = Len(cs) + 1 \/ ~IsDigit(cs[j])
    /\ \A k \in from..(j - 1) : IsDigit(cs[k])

\* Up to four fraction digits as ten-thousandths.
FracValue(ds) == DigitsValue(ds \o [i \in 1..(4 - Len(ds)) |-> 48])

\* The literal cs[from..fracEnd-1] whose integer digits end before intEnd.
DecimalAt(cs, from, intEnd, fracEnd) ==
  LET fracDs == SubSeq(cs, intEnd + 1, fracEnd - 1)
      mag == DigitsValue(SubSeq(cs, from, intEnd - 1)) * Unit
               + (IF Len(fracDs) <= 4 THEN FracValue(fracDs) ELSE 0)
  IN IF intEnd = from /\ fracDs = <<>> THEN [end |-> 0, value |-> NaNValue]
     ELSE IF Len(fracDs) > 4 THEN [end |-> fracEnd, value |-> NaNValue]
     ELSE [end |-> fracEnd, value |-> Num(IF cs[1] = 45 THEN 0 - mag ELSE mag)]

\* The decimal literal at the start of cs: where it ends, and its value.  No
\* literal gives end 0.  More than four fraction digits are not followed (NaN).
DecimalPrefix(cs) ==
  IF cs = <<>> THEN [end |-> 0, value |-> NaNValue]
  ELSE CHOOSE r \in
         {DecimalAt(cs, from, intEnd,
                    IF intEnd <= Len(cs) /\ cs[intEnd] = 46 THEN DigitRunEnd(cs, intEnd + 1)
                    ELSE intEnd) :
            from \in {IF cs[1] \in {43, 45} THEN 2 ELSE 1},
            intEnd \in {DigitRunEnd(cs, IF cs[1] \in {43, 45} THEN 2 ELSE 1)}} : TRUE

\* Number(string): the whole trimmed string must be a literal; '' is 0.
StringToNumber(cs) ==
  CHOOSE r \in
    {IF tr = <<>> THEN Num(0)
     ELSE IF DecimalPrefix(tr).end = Len(tr) + 1 THEN DecimalPrefix(tr).value
     ELSE NaNValue : tr \in {Trim(cs)}} : TRUE

\* parseFloat(string) where the numbers are ten-thousandths.
ParseFloatOf(cs) ==
  LET tr == Trim(cs)
  IN DecimalPrefix(tr).value

\* Number(v)
ToNumber(v) ==
  CASE v.t = "number" -> v
    [] v.t = "boolean" -> Num(v.n * Unit)
    [] v.t = "string" -> StringToNumber(v.s)
    [] v.t = "null" -> Num(0)
    [] OTHER -> NaNValue

\* ---------------------------------------------------------------- the form
\* The controls are value holders: a range input or select keeps the string
\* written to it, a checkbox its checked flag.  The page gives every range
\* input its min and max; they are taken to be SliderMin and SliderMax.
SliderKeys ==
  <<"overall_scale", "palm_width", "palm_length", "finger_length_index",
    "finger_length_middle", "finger_length_ring", "finger_length_pinky",
    "joint_clearance", "thumb_length", "thumb_angle", "thumb_clearance",
    "pivot_extra_clearance", "string_channel_scale", "elastic_channel_scale">>

BoolKeys ==
  <<"mirrored", "include_wrist_stamping_die", "pins", "plugs", "include_mesh",
    "include_knuckle_covers", "old_style_wrist">>

TextKeys == <<"serial_line1", "serial_line2", "serial_line3">>

NumericOverrideKeys ==
  <<"global_scale", "nominal_clearance", "bearing_pocket_diameter",
    "bearing_pocket_depth", "pin_index", "pin_diameter_clearance">>

BooleanOverrideKeys ==
  <<"pins_for_string", "print_finger_phalanx", "print_long_fingers",
    "print_short_fingers", "print_thumb", "print_thumb_phalanx">>

\* nonUiKeys of applyConfig
NonUiKeys == NumericOverrideKeys \o BooleanOverrideKeys

Range(seq) == {seq[i] : i \in 1..Len(seq)}

SerialMaxLen == 15

\* clampToRange(val, min, max), min and max being numbers.
clampToRange(val, min, max) ==
  LET v == ToNumber(val)
  IN IF v.t # "number" THEN min
     ELSE IF v.n < min THEN min
     ELSE IF v.n > max THEN max
     ELSE v.n

\* readSliderValue(id): the clamped value, written back when it differs.
readSliderValue(form, id) ==
  LET raw == ToNumber(Str(form.slider[id]))
      v == clampToRange(Str(form.slider[id]), SliderMin * Unit, SliderMax * Unit)
  IN [value |-> Num(v),
      form |-> IF raw = Num(v) THEN form
               ELSE [form EXCEPT !.slider[id] = FixedToString(v)]]

\* The write-backs of all the readSliderValue calls of readParameters; each
\* touches its own slider only.
ReadSliders(form) ==
  [form EXCEPT !.slider = [k \in DOMAIN form.slider |->
                             readSliderValue(form, k).form.slider[k]]]

\* String(el.value || '').slice(0, 15)
ReadText(cs) == SubSeq(cs, 1, Min(SerialMaxLen, Len(cs)))

DefaultPivotText == <<49, 46, 53, 56, 55, 53>>

\* What readParameters reads from the control of a form key.
ReadControl(form, k) ==
  IF k \in Range(SliderKeys) THEN readSliderValue(form, k).value
  ELSE IF k \in Range(BoolKeys) THEN Bool(form.checked[k])
  ELSE IF k \in Range(TextKeys) THEN Str(ReadText(form.text[k]))
  ELSE ParseFloatOf(IF form.pivot_size = <<>> THEN DefaultPivotText ELSE form.pivot_size)

\* The defaults of the non-UI parameters in readParameters.
OverrideDefault(form, k) ==
  CASE k = "global_scale" -> ReadControl(form, "overall_scale")
    [] k = "nominal_clearance" -> ReadControl(form, "joint_clearance")
    [] k = "bearing_pocket_diameter" -> Num(0)
    [] k = "bearing_pocket_depth" -> Num(4000)
    [] k = "pin_index" -> Num(Unit)
    [] k = "pin_diameter_clearance" -> Num(0)
    [] k = "pins_for_string" -> Bool(FALSE)
    [] OTHER -> Bool(TRUE)

\* (overrides.k != null) ? Number(overrides.k) : default, or !!overrides.k for
\* the flags.
ReadOverride(overrides, form, k) ==
  LET o == Get(overrides, k)
  IN IF o.t \in {"null", "undefined"} THEN OverrideDefault(form, k)
     ELSE IF k \in Range(NumericOverrideKeys) THEN ToNumber(o)
     ELSE Bool(Truthy(o))

FormKeys == Range(SliderKeys) \cup Range(BoolKeys) \cup Range(TextKeys) \cup {"pivot_size"}

\* readParameters(): the parameter object and the form after the write-backs.
readParameters(form, overrides) ==
  [params |-> [k \in FormKeys \cup Range(NonUiKeys) |->
                 IF k \in FormKeys THEN ReadControl(form, k)
                 ELSE ReadOverride(overrides, form, k)],
   form |-> ReadSliders(form)]

\* setSliderValue(id, value)
setSliderValue(form, id, value) ==
  [form EXCEPT !.slider[id] =
     FixedToString(clampToRange(value, SliderMin * Unit, SliderMax * Unit))]

\* el.checked = !!cfg[b]
SetChecked(v) == Truthy(v)

\* applyConfig(cfg): the form and the overrides afterwards.
applyConfig(form, overrides, c) ==
  LET defined(k) == Get(c, k).t # "undefined"
      f1 == [form EXCEPT
               !.slider = [k \in DOMAIN form.slider |->
                             IF defined(k) THEN setSliderValue(form, k, c[k]).slider[k]
                             ELSE form.slider[k]],
               !.checked = [k \in DOMAIN form.checked |->
                              IF defined(k) THEN SetChecked(c[k]) ELSE form.checked[k]],
               !.text = [k \in DOMAIN form.text |->
                           IF defined(k) THEN ReadText(ToStr(c[k])) ELSE form.text[k]],
               !.pivot_size = IF defined("pivot_size") THEN ToStr(c["pivot_size"])
                              ELSE form.pivot_size]
      keys == DOMAIN overrides \cup {k \in Range(NonUiKeys) : defined(k)}
  IN [form |-> f1,
      overrides |-> [k \in keys |-> IF k \in Range(NonUiKeys) /\ defined(k) THEN c[k]
                                    ELSE overrides[k]]]

\* ------------------------------------------------------------ the assembler
\* v.replace(/"/g, '\\"')
RECURSIVE EscapeQuotes(_)
EscapeQuotes(cs) ==
  IF cs = <<>> THEN <<>>
  ELSE (IF Head(cs) = 34 THEN <<92, 34>> ELSE <<Head(cs)>>) \o EscapeQuotes(Tail(cs))

Slice(cs, n) == SubSeq(cs, 1, Min(n, Len(cs)))

\* The literal made by cutting first and escaping what is left.
LiteralOfFirstChars(v, fallback) ==
  LET text == IF v.t \in {"null", "undefined"} \/ v = Str(<<>>) THEN fallback ELSE ToStr(v)
  IN <<34>> \o EscapeQuotes(Slice(text, SerialMaxLen)) \o <<34>>

\* scadStringLiteral(s, fallback)
scadStringLiteral(v, fallback) ==
  LET text == IF v.t \in {"null", "undefined"} \/ v = Str(<<>>) THEN fallback ELSE ToStr(v)
  IN <<34>> \o Slice(EscapeQuotes(text), SerialMaxLen) \o <<34>>

\* Number.isFinite(raw.k) ? raw.k : fallback
FiniteOr(raw, k, fallback) ==
  IF IsFiniteNumber(Get(raw, k)) THEN Get(raw, k) ELSE fallback

\* raw.k !== undefined ? !!raw.k : fallback
FlagOr(raw, k, fallback) ==
  IF Get(raw, k).t # "undefined" THEN Bool(Truthy(Get(raw, k))) ELSE Bool(fallback)

\* extractParameterValues(raw), under the names buildAssignmentString gives
\* the values in its base object.
extractParameterValues(raw) ==
  LET overallScale == FiniteOr(raw, "overall_scale", Num(12500))
  IN [overall_scale |-> Str(ToFixed4(overallScale.n)),
      mirrored |-> Bool(Truthy(Get(raw, "mirrored"))),
      serial_line1 |-> Str(scadStringLiteral(Get(raw, "serial_line1"), <<>>)),
      serial_line2 |-> Str(scadStringLiteral(Get(raw, "serial_line2"), <<>>)),
      serial_line3 |-> Str(scadStringLiteral(Get(raw, "serial_line3"), <<>>)),
      include_wrist_stamping_die |-> FlagOr(raw, "include_wrist_stamping_die", TRUE),
      pivot_size |-> (IF IsFiniteNumber(ToNumber(Get(raw, "pivot_size")))
                      THEN ToNumber(Get(raw, "pivot_size")) ELSE Num(15875)),
      pivot_extra_clearance |-> FiniteOr(raw, "pivot_extra_clearance", Num(0)),
      pins |-> FlagOr(raw, "pins", TRUE),
      plugs |-> FlagOr(raw, "plugs", TRUE),
      include_mesh |-> (IF Get(raw, "include_mesh").t # "undefined"
                        THEN (IF Truthy(Get(raw, "include_mesh")) THEN Num(Unit) ELSE Num(0))
                        ELSE Num(Unit)),
      include_knuckle_covers |-> FlagOr(raw, "include_knuckle_covers", TRUE),
      string_channel_scale |-> FiniteOr(raw, "string_channel_scale", Num(9000)),
      elastic_channel_scale |-> FiniteOr(raw, "elastic_channel_scale", Num(9000)),
      old_style_wrist |-> FlagOr(raw, "old_style_wrist", FALSE),
      thumb_length |-> FiniteOr(raw, "thumb_length", Num(65 * Unit)),
      thumb_angle |-> FiniteOr(raw, "thumb_angle", Num(45 * Unit)),
      thumb_clearance |-> FiniteOr(raw, "thumb_clearance", Num(5000)),
      global_scale |-> FiniteOr(raw, "global_scale", overallScale),
      nominal_clearance |-> FiniteOr(raw, "nominal_clearance", Num(5000)),
      bearing_pocket_diameter |-> FiniteOr(raw, "bearing_pocket_diameter", Num(0)),
      bearing_pocket_depth |-> FiniteOr(raw, "bearing_pocket_depth", Num(4000)),
      pin_index |-> FiniteOr(raw, "pin_index", Num(Unit)),
      pin_diameter_clearance |-> FiniteOr(raw, "pin_diameter_clearance", Num(0)),
      pins_for_string |-> FlagOr(raw, "pins_for_string", FALSE),
      print_finger_phalanx |-> FlagOr(raw, "print_finger_phalanx", TRUE),
      print_long_fingers |-> FlagOr(raw, "print_long_fingers", TRUE),
      print_short_fingers |-> FlagOr(raw, "print_short_fingers", TRUE),
      print_thumb |-> FlagOr(raw, "print_thumb", TRUE),
      print_thumb_phalanx |-> FlagOr(raw, "print_thumb_phalanx", TRUE)]

ZeroText == <<48>>

\* formatScadValue(value)
formatScadValue(value) ==
  CASE value.t = "boolean" -> (IF value.n = 1 THEN TrueText ELSE FalseText)
    [] value.t = "number" -> FixedToString(value.n)
    [] value.t = "NaN" -> ZeroText
    [] OTHER -> ToStr(value)

\* The order array of buildAssignmentString.
Schedule ==
  <<"overall_scale", "mirrored", "serial_line1", "serial_line2", "serial_line3",
    "include_wrist_stamping_die", "pivot_size", "pivot_extra_clearance", "pins",
    "plugs", "include_mesh", "include_knuckle_covers", "string_channel_scale",
    "elastic_channel_scale", "old_style_wrist", "thumb_length", "thumb_angle",
    "thumb_clearance", "global_scale", "nominal_clearance",
    "bearing_pocket_diameter", "bearing_pocket_depth", "pin_index",
    "pin_diameter_clearance", "pins_for_string", "print_finger_phalanx",
    "print_long_fingers", "print_short_fingers", "print_thumb",
    "print_thumb_phalanx">>

\* { ...base, ...overrides }: the keys of base in their order, then the new
\* keys of overrides in theirs; a key of both takes the value of overrides.
MergedKeys(baseKeys, overrideKeys) ==
  baseKeys \o SelectSeq(overrideKeys, LAMBDA k : k \notin Range(baseKeys))

\* A variant that merges the other way round, { ...overrides, ...base }.
MergedValue_BaseWins(base, overrides, overrideKeys, k) ==
  IF k \in DOMAIN base THEN base[k] ELSE overrides[k]

MergedValue(base, overrides, overrideKeys, k) ==
  IF k \in Range(overrideKeys) THEN overrides[k] ELSE base[k]

\* One line, `${key} = ${formatScadValue(merged[key])};`, as key and value text.
AssignmentLine(key, value) == [key |-> key, value |-> formatScadValue(value)]

\* A variant that writes the merged map out in its own key order.
buildAssignmentString_MergeOrder(values, overrides, overrideKeys) ==
  LET keys == MergedKeys(Schedule, overrideKeys)
  IN [i \in 1..Len(keys) |->
        AssignmentLine(keys[i], MergedValue(values, overrides, overrideKeys, keys[i]))]

\* buildAssignmentString(values, overrides): the lines, in order.  The override
\* object is given with the order of its keys.
buildAssignmentString(values, overrides, overrideKeys) ==
  LET merged == Range(MergedKeys(Schedule, overrideKeys))
      keys == SelectSeq(Schedule, LAMBDA k : k \in merged)
  IN [i \in 1..Len(keys) |->
        AssignmentLine(keys[i], MergedValue(values, overrides, overrideKeys, keys[i]))]

\* The overrides of buildFingerScad, with the order the code assigns them in.
FingerOverrideKeys(mode) ==
  CASE mode = "fingers" -> <<"print_thumb", "print_thumb_phalanx">>
    [] mode = "thumb" -> <<"print_finger_phalanx", "print_long_fingers",
                           "print_short_fingers", "print_thumb", "print_thumb_phalanx">>
    [] OTHER -> <<>>

FingerOverrides(mode) ==
  [k \in Range(FingerOverrideKeys(mode)) |->
     IF mode = "thumb" /\ k \in {"print_thumb", "print_thumb_phalanx"} THEN Bool(TRUE)
     ELSE Bool(FALSE)]

\* The assembled text: the fixed parts of the template by name, around the
\* assignment lines.
buildFingerScad(values, mode) ==
  [head |-> <<"fingerator_auto_run = false;", "include <models/fingerator.scad>;">>,
   assignments |-> buildAssignmentString(values, FingerOverrides(mode), FingerOverrideKeys(mode)),
   tail |-> <<"buildFingerDerivedValues", "fingerGeometryBody">>]

buildPalmScad(values) ==
  [head |-> <<"palm_auto_run = false;", "include <models/paraglider_palm_left.scad>;">>,
   assignments |-> buildAssignmentString(values, <<>>, <<>>),
   tail |-> <<"scaled_palm();", "buildPalmSupplementBlock">>]

buildFullHandScad(values) ==
  [head |-> <<"palm_auto_run = false;", "fingerator_auto_run = false;",
              "include <models/hand_wrapper.scad>;">>,
   assignments |-> buildAssignmentString(values, <<>>, <<>>),
   tail |-> <<"scaled_hand();", "buildPalmSupplementBlock",
              "buildFingerDerivedValues", "fingerGeometryBody">>]

\* String.prototype.toLowerCase on the letters A to Z.
toLowerCase(cs) ==
  [i \in 1..Len(cs) |-> IF cs[i] >= 65 /\ cs[i] <= 90 THEN cs[i] + 32 ELSE cs[i]]

TabAll == <<65, 108, 108>>
TabPalm == <<80, 97, 108, 109>>
TabFingers == <<70, 105, 110, 103, 101, 114, 115>>
TabThumb == <<84, 104, 117, 109, 98>>
TabNames == {TabAll, TabPalm, TabFingers, TabThumb}

\* A variant that takes the tab from the session instead of its argument.
buildScadFromParameters_ActiveTab(p, tabName) ==
  LET values == extractParameterValues(p)
      tab == toLowerCase(IF activeTab = <<>> THEN TabAll ELSE activeTab)
  IN IF tab = <<112, 97, 108, 109>> THEN buildPalmScad(values)
     ELSE IF tab = <<102, 105, 110, 103, 101, 114, 115>> THEN buildFingerScad(values, "fingers")
     ELSE IF tab = <<116, 104, 117, 109, 98>> THEN buildFingerScad(values, "thumb")
     ELSE buildFullHandScad(values)

\* buildScadFromParameters(p, tabName)
buildScadFromParameters(p, tabName) ==
  LET values == extractParameterValues(p)
      tab == toLowerCase(IF tabName = <<>> THEN TabAll ELSE tabName)
  IN IF tab = <<112, 97, 108, 109>> THEN buildPalmScad(values)
     ELSE IF tab = <<102, 105, 110, 103, 101, 114, 115>> THEN buildFingerScad(values, "fingers")
     ELSE IF tab = <<116, 104, 117, 109, 98>> THEN buildFingerScad(values, "thumb")
     ELSE buildFullHandScad(values)

\* --------------------------------------------------------------- JSON text
\* The body of a JSON string literal: quote and backslash get a backslash.
RECURSIVE JsonEscape(_)
JsonEscape(cs) ==
  IF cs = <<>> THEN <<>>
  ELSE (IF Head(cs) \in {34, 92} THEN <<92, Head(cs)>> ELSE <<Head(cs)>>) \o JsonEscape(Tail(cs))

\* JSON.stringify of one value: NaN is written as null.
JsonStringify(v) ==
  CASE v.t = "number" -> FixedToString(v.n)
    [] v.t = "boolean" -> (IF v.n = 1 THEN TrueText ELSE FalseText)
    [] v.t = "string" -> <<34>> \o JsonEscape(v.s) \o <<34>>
    [] OTHER -> NullText

\* The characters of a string literal's body, escapes undone.
RECURSIVE JsonUnescape(_)
JsonUnescape(cs) ==
  IF cs = <<>> THEN <<>>
  ELSE IF Head(cs) = 92 /\ Len(cs) >= 2 THEN <<cs[2]>> \o JsonUnescape(SubSeq(cs, 3, Len(cs)))
  ELSE <<Head(cs)>> \o JsonUnescape(Tail(cs))

\* JSON.parse of one value.
JsonParse(cs) ==
  IF cs # <<>> /\ Head(cs) = 34 THEN Str(JsonUnescape(SubSeq(cs, 2, Len(cs) - 1)))
  ELSE IF cs = TrueText THEN Bool(TRUE)
  ELSE IF cs = FalseText THEN Bool(FALSE)
  ELSE IF cs = NullText THEN Null
  ELSE StringToNumber(cs)

\* JSON.parse(JSON.stringify(config)) for a flat object.
JsonDocument(config) == [k \in DOMAIN config |-> JsonParse(JsonStringify(config[k]))]

\* ------------------------------------------------------------ form at rest
\* The page's initial control values are taken to be the defaults the
\* assembler falls back to, and in range.
InitialSlider(k) ==
  CASE k = "overall_scale" -> <<49, 46, 50, 53>>
    [] k \in {"joint_clearance", "thumb_clearance"} -> <<48, 46, 53>>
    [] k = "thumb_length" -> <<54, 53>>
    [] k = "thumb_angle" -> <<52, 53>>
    [] k = "pivot_extra_clearance" -> <<48>>
    [] k \in {"string_channel_scale", "elastic_channel_scale"} -> <<48, 46, 57>>
    [] k = "palm_length" -> <<49, 48, 48>>
    [] OTHER -> <<55, 48>>

InitialForm ==
  [slider |-> [k \in Range(SliderKeys) |-> InitialSlider(k)],
   checked |-> [k \in Range(BoolKeys) |-> k \notin {"mirrored", "old_style_wrist"}],
   text |-> [k \in Range(TextKeys) |-> <<>>],
   pivot_size |-> DefaultPivotText]

NoOverrides == [k \in {} |-> Null]
NoScad == [made |-> FALSE]
NoCfg == [from |-> "none"]
NoSnapshot == [saved |-> FALSE]

\* The form side at rest, for the specifications that do not follow it.
FormIdle ==
  /\ ui = InitialForm
  /\ configOverrides = NoOverrides
  /\ activeTab = TabAll
  /\ scad = NoScad
  /\ cfg = NoCfg
  /\ snapshot = NoSnapshot
  /\ formOps = 0

\* ------------------------------------------------------------------ actions
SessionInit ==
  /\ openscad = [module |-> NoModule, loading |-> FALSE, loaded |-> FALSE,
                 unavailable |-> FALSE, modelsLoaded |-> FALSE]
  /\ windowOpenSCAD \in BOOLEAN
  /\ instInFlight = 0
  /\ instCount = 0
  /\ dead = {}
  /\ preloaded = {}
  /\ displayed = InitialCube
  /\ group = <<InitialCube>>
  /\ scadFile = [m \in 1..(2 * NumCallers) |-> 0]
  /\ gaps = {}
  /\ pc = [c \in Callers |-> "idle"]
  /\ idx = [c \in Callers |-> 0]
  /\ inst = [c \in Callers |-> NoModule]
  /\ phase = [c \in Callers |-> "none"]
  /\ attempts = [c \in Callers |-> 0]
  /\ calls = [c \in Callers |-> 0]
  /\ exitStatus = NoStatus
  /\ mod = [c \in Callers |-> NoModule]
  /\ err = [c \in Callers |-> NoError]
  /\ outcome = [c \in Callers |-> "none"]
  /\ params = [c \in Callers |-> NoParams]

Init ==
  /\ SessionInit
  /\ data = NoData
  /\ decoded = NoGeometry
  /\ ExportIdle
  /\ FormIdle

\* updateModel(): a click, a tab switch or a loaded config.  The requests are
\* numbered in the order they are issued.
Start(c) ==
  /\ pc[c] = "idle"
  /\ \A d \in Callers : d < c => pc[d] # "idle"
  /\ \E p \in ParamChoices :
       Commit(Resume(EnsureSync([World EXCEPT !.params[c] = p, !.phase[c] = "update"], c), c))

\* One base of the loader lookup settles.
Lookup(c) ==
  /\ pc[c] = "lookup"
  /\ \E r \in {"import", "script", "none"} : Commit(Resume(LookupStep(World, c, r), c))

\* The module instantiation settles.
InstSettle(c) ==
  /\ pc[c] = "inst"
  /\ \E ok \in BOOLEAN : Commit(Resume(InstDone(World, c, ok), c))

\* The 50 ms timer of a waiting caller fires.
PollTick(c) ==
  /\ pc[c] = "poll"
  /\ Commit(Resume(PollCheck(World, c), c))

\* One fetch of ensureScadModels settles.
ModelsFetch(c) ==
  /\ pc[c] = "models"
  /\ \E ok \in BOOLEAN : Commit(Settle(ModelsStep(World, c, ok), c))

\* What one compiler run can be given by its environment: an outcome, with the
\* exit status or the output file where the outcome has one.
CallInputs(w, m) ==
  {[o |-> o, code |-> 0, stl |-> <<>>] : o \in CallOutcomes(w, m) \ {"ok", "exit"}}
  \cup (IF "exit" \in CallOutcomes(w, m)
        THEN {[o |-> "exit", code |-> k, stl |-> <<>>] : k \in ExitCodes} ELSE {})
  \cup (IF "ok" \in CallOutcomes(w, m)
        THEN {[o |-> "ok", code |-> 0, stl |-> b] : b \in CompilerOutputs} ELSE {})

\* One font fetch settles; after the last one, or after a hit, the compiler runs.
FontFetch(c) ==
  /\ pc[c] = "font"
  /\ \/ /\ idx[c] < NumFonts
        /\ Commit(Settle(FontStep(World, c, FALSE, "none", 0, <<>>), c))
     \/ \E in \in CallInputs(World, mod[c]) :
          Commit(Settle(FontStep(World, c, idx[c] < NumFonts, in.o, in.code, in.stl), c))

Next ==
  \E c \in Callers :
    \/ Start(c)
    \/ Lookup(c)
    \/ InstSettle(c)
    \/ PollTick(c)
    \/ ModelsFetch(c)
    \/ FontFetch(c)

Spec == Init /\ [][Next]_vars

\* Every pending timer, fetch, import and instantiation eventually settles;
\* clicks are not forced.
Progress(c) ==
  Lookup(c) \/ InstSettle(c) \/ PollTick(c) \/ ModelsFetch(c) \/ FontFetch(c)

FairSpec == Spec /\ \A c \in Callers : WF_vars(Progress(c))

\* ------------------------------------------------------------ codec actions
CodecInit ==
  /\ SessionInit
  /\ windowOpenSCAD = FALSE
  /\ data \in SampleData
  /\ decoded = NoGeometry
  /\ ExportIdle
  /\ FormIdle

\* bufferGeometryFromSTL(data) is called.
Decode ==
  /\ decoded = NoGeometry
  /\ decoded' = bufferGeometryFromSTL(data)
  /\ UNCHANGED <<data, sessionVars, exportVars, formVars>>

\* Another input arrives.
NextInput ==
  /\ decoded # NoGeometry
  /\ data' \in SampleData
  /\ decoded' = NoGeometry
  /\ UNCHANGED <<sessionVars, exportVars, formVars>>

CodecNext == Decode \/ NextInput

CodecSpec == CodecInit /\ [][CodecNext]_vars

\* ----------------------------------------------------------- export actions
ExportInit ==
  /\ SessionInit
  /\ windowOpenSCAD = FALSE
  /\ data = NoData
  /\ decoded = NoGeometry
  /\ scene \in SampleScenes
  /\ windowJSZip \in BOOLEAN
  /\ exportPc = "idle"
  /\ zip = {}
  /\ download = NoDownload
  /\ reread = NoReread
  /\ FormIdle

\* The part of exportSTLComponentsZip after `await ensureJSZip()` gave JSZip.
Fill ==
  LET r == FillZip(scene)
  IN /\ zip' = r.zip
     /\ exportPc' = IF r.generate THEN "generate" ELSE "idle"

\* exportSTLComponentsZip(): Export STL, answered with OK.
ExportComponents ==
  /\ exportPc = "idle"
  /\ IF windowJSZip THEN Fill ELSE exportPc' = "jszip" /\ zip' = zip
  /\ UNCHANGED <<scene, windowJSZip, download, reread, sessionVars, codecVars, formVars>>

\* loadScript('/libs/jszip.min.js') settles; without JSZip the export ends.
JSZipSettle ==
  /\ exportPc = "jszip"
  /\ \E ok \in BOOLEAN :
       /\ windowJSZip' = ok
       /\ IF ok THEN Fill ELSE exportPc' = "idle" /\ zip' = zip
  /\ UNCHANGED <<scene, download, reread, sessionVars, codecVars, formVars>>

\* zip.generateAsync settles and the archive is downloaded; the function
\* returns and its JSZip object is gone.
ZipGenerated ==
  /\ exportPc = "generate"
  /\ download' = [kind |-> "zip", entries |-> zip]
  /\ exportPc' = "idle"
  /\ zip' = {}
  /\ UNCHANGED <<scene, windowJSZip, reread, sessionVars, codecVars, formVars>>

\* exportSTLCombined(): Export STL, answered with Cancel.
ExportCombined ==
  /\ exportPc = "idle"
  /\ LET tris == TrianglesOfGroup(scene)
     IN download' = IF tris = <<>> THEN download
                    ELSE [kind |-> "stl", text |-> trianglesToAsciiSTL(tris, CombinedName)]
  /\ UNCHANGED <<scene, windowJSZip, exportPc, zip, reread, sessionVars, codecVars, formVars>>

\* An updateModel request ends while the export is suspended.
ModelReplaced ==
  /\ exportPc # "idle"
  /\ scene' \in SampleScenes
  /\ UNCHANGED <<windowJSZip, exportPc, zip, download, reread, sessionVars, codecVars, formVars>>

\* bufferGeometryFromSTL applied to trianglesToAsciiSTL(M, "x"), as text or as
\* its bytes, for the triangle list M of the scene.
Reread ==
  /\ exportPc = "idle"
  /\ \E asText \in BOOLEAN :
       LET m == TrianglesOfGroup(scene)
           d == [isString |-> asText, bytes |-> trianglesToAsciiSTL(m, RoundTripName)]
       IN reread' = [done |-> TRUE, mesh |-> m, asText |-> asText,
                     threw |-> bufferGeometryFromSTL(d).threw,
                     positions |-> PositionsFromSTL(d)]
  /\ UNCHANGED <<scene, windowJSZip, exportPc, zip, download, sessionVars, codecVars, formVars>>

ExportNext ==
  \/ ExportComponents
  \/ JSZipSettle
  \/ ZipGenerated
  \/ ExportCombined
  \/ ModelReplaced
  \/ Reread

ExportSpec == ExportInit /\ [][ExportNext]_vars

\* The export applied to any scene graph.
SceneInit ==
  /\ SessionInit
  /\ windowOpenSCAD = FALSE
  /\ data = NoData
  /\ decoded = NoGeometry
  /\ scene \in SceneGraphs
  /\ windowJSZip \in BOOLEAN
  /\ exportPc = "idle"
  /\ zip = {}
  /\ download = NoDownload
  /\ reread = NoReread
  /\ FormIdle

SceneSpec == SceneInit /\ [][ExportNext]_vars

\* ------------------------------------------------------------ form actions
\* What the user and the configuration files put in.
SlideChoices == {<<49, 46, 50, 53>>, <<49, 46, 53>>}
QuotedSerial == <<97, 97, 97, 97, 97, 97, 97, 97, 97, 97, 97, 97, 97, 97, 34>>
LongSerial == <<83, 78, 45, 34, 50, 48, 50, 52, 34, 45, 48, 48, 48, 49, 50, 51, 45, 66>>
SerialChoices == {<<>>, QuotedSerial, LongSerial}

ConfigScale ==
  [k \in {"overall_scale", "global_scale", "serial_line1"} |->
     CASE k = "overall_scale" -> Num(250 * Unit)
       [] k = "global_scale" -> Num(15000)
       [] OTHER -> Str(LongSerial)]
ConfigPin ==
  [k \in {"pin_index", "print_thumb"} |-> IF k = "pin_index" THEN Num(0) ELSE Bool(FALSE)]
ConfigNull == [k \in {"pin_index"} |-> Null]
ConfigText == [k \in {"pin_index"} |-> Str(<<97, 98, 99>>)]
ConfigEmpty == NoOverrides
SampleConfigs == {ConfigScale, ConfigPin, ConfigNull, ConfigText, ConfigEmpty}

\* updateModel() up to the text it hands to the compiler; the compile and the
\* display that follow are the session's.
Assemble(form, overrides, tab) ==
  \E r \in {readParameters(form, overrides)} :
     /\ ui' = r.form
     /\ scad' = [made |-> TRUE, params |-> r.params, tab |-> tab,
                 text |-> buildScadFromParameters(r.params, tab)]

\* One more form operation.
Operate ==
  /\ formOps < MaxFormOps
  /\ formOps' = formOps + 1

AssemblyInit ==
  /\ SessionInit
  /\ windowOpenSCAD = FALSE
  /\ data = NoData
  /\ decoded = NoGeometry
  /\ ExportIdle
  /\ FormIdle

\* The user moves the overall_scale slider.
Slide(v) ==
  /\ ui.slider["overall_scale"] # v
  /\ ui' = [ui EXCEPT !.slider["overall_scale"] = v]
  /\ cfg' = NoCfg
  /\ Operate
  /\ UNCHANGED <<configOverrides, activeTab, scad, snapshot, sessionVars, codecVars, exportVars>>

\* The user edits the first serial line.
TypeSerial(text) ==
  /\ ui.text["serial_line1"] # text
  /\ ui' = [ui EXCEPT !.text["serial_line1"] = text]
  /\ cfg' = NoCfg
  /\ Operate
  /\ UNCHANGED <<configOverrides, activeTab, scad, snapshot, sessionVars, codecVars, exportVars>>

\* The click handler of a tab (initTabs).
TabClick(t) ==
  /\ t # activeTab
  /\ activeTab' = t
  /\ Assemble(ui, configOverrides, t)
  /\ cfg' = NoCfg
  /\ Operate
  /\ UNCHANGED <<configOverrides, snapshot, sessionVars, codecVars, exportVars>>

\* Update Model is clicked.
UpdateClick ==
  /\ Assemble(ui, configOverrides, activeTab)
  /\ cfg' = NoCfg
  /\ Operate
  /\ UNCHANGED <<configOverrides, activeTab, snapshot, sessionVars, codecVars, exportVars>>

\* saveConfig(): the parameters are read and downloaded as JSON.
SaveConfig ==
  \E r \in {readParameters(ui, configOverrides)} :
     /\ ui' = r.form
     /\ snapshot' = [saved |-> TRUE, doc |-> JsonDocument(r.params)]
     /\ cfg' = NoCfg
     /\ Operate
     /\ UNCHANGED <<configOverrides, activeTab, scad, sessionVars, codecVars, exportVars>>

\* fr.onload of triggerLoadConfig for a file holding the object c.
Load(c, from) ==
  \E a \in {applyConfig(ui, configOverrides, c)} :
     /\ configOverrides' = a.overrides
     /\ Assemble(a.form, a.overrides, activeTab)
     /\ cfg' = [from |-> from, map |-> c]
     /\ Operate
     /\ UNCHANGED <<activeTab, snapshot, sessionVars, codecVars, exportVars>>

LoadConfig == \E c \in SampleConfigs : Load(c, "file")

\* The file loaded is the one saveConfig wrote last.
LoadSaved ==
  /\ snapshot.saved
  /\ Load(snapshot.doc, "saved")

AssemblyNext ==
  \/ \E v \in SlideChoices : Slide(v)
  \/ \E text \in SerialChoices : TypeSerial(text)
  \/ \E t \in TabNames : TabClick(t)
  \/ UpdateClick
  \/ SaveConfig
  \/ LoadConfig
  \/ LoadSaved

AssemblySpec == AssemblyInit /\ [][AssemblyNext]_vars

TypeOK ==
  /\ openscad.module \in 0..(2 * NumCallers)
  /\ openscad.loading \in BOOLEAN /\ openscad.loaded \in BOOLEAN
  /\ openscad.unavailable \in BOOLEAN /\ openscad.modelsLoaded \in BOOLEAN
  /\ instInFlight \in 0..NumCallers
  /\ instCount \in 0..(2 * NumCallers)
  /\ \A c \in Callers :
       /\ pc[c] \in {"idle", "lookup", "inst", "poll", "models", "font", "done"}
       /\ attempts[c] \in 0..2
       /\ calls[c] \in 0..2
       /\ outcome[c] \in {"none", "model", "fallback"}
       /\ (pc[c] = "done") = (outcome[c] # "none")
  /\ gaps \subseteq 1..(2 * NumCallers)
  /\ \A m \in DOMAIN scadFile : scadFile[m] \in 0..NumCallers
  /\ group # <<>>

  /\ formOps \in 0..MaxFormOps
  /\ activeTab \in TabNames
  /\ scad.made => scad.tab = activeTab

\* ==================================================================== claims
Others(c) == Callers \ {c}
Quiescent(c) == \A d \in Others(c) : pc[d] \in {"idle", "done"}
Ready == openscad.loaded /\ openscad.module # NoModule

\* C1: at no time are two module instantiations (window.OpenSCAD(...) calls
\* started by ensureOpenSCADModule) in flight at once.
C1_OneInstantiationInFlight == instInFlight <= 1

\* C2: every caller suspended in the waiting branch of ensureOpenSCADModule
\* resumes once the shared load has settled, as Ready or as Unavailable.
C2_WaitersResume ==
  \A c \in Callers :
    (pc[c] = "poll" /\ (Ready \/ openscad.unavailable)) ~> (pc[c] # "poll")

\* C3: a compileSCADToSTL call runs runOnce at most twice; the second run is
\* made only after the first failed with the already-aborted message; a second
\* run that leaves the compile stage ends the request (result or propagated
\* error), it never starts a third run.
C3_AtMostOneRetry ==
  [][\A c \in Callers :
       /\ attempts'[c] <= 2
       /\ attempts'[c] # attempts[c] =>
            \/ attempts[c] = 0 /\ attempts'[c] = 1
            \/ attempts[c] = 1 /\ attempts'[c] = 2 /\ IsAbortSignature(err'[c])
                 /\ calls'[c] = calls[c] + 1 /\ ~exitStatus'.returned
       /\ (attempts[c] = 2 /\ calls'[c] # calls[c]) =>
            /\ pc'[c] = "done" /\ attempts'[c] = 2
            /\ ~(exitStatus'.returned /\ exitStatus'.code = 0) =>
                 outcome'[c] = "fallback" /\ err'[c] # NoError]_vars

C3_Witness ==
  \E c \in Callers :
    /\ pc[c] = "done" /\ attempts[c] = 2 /\ calls[c] = 2
    /\ outcome[c] = "fallback" /\ IsAbortSignature(err[c])

\* C4: alone on a Ready session, a compile that fails with the already-aborted
\* message resets the session (module dropped, not loaded, models forgotten)
\* and its retry starts exactly one fresh instantiation in the same turn
\* (loading is true again only because that load has begun); when that load
\* succeeds the fresh module is installed and the auxiliary preload runs again.
C4_ResetAndRetry ==
  [][\A c \in Callers :
       /\ (Quiescent(c) /\ Ready /\ attempts[c] = 1 /\ attempts'[c] = 2) =>
            /\ openscad' = [module |-> NoModule, loading |-> TRUE, loaded |-> FALSE,
                            unavailable |-> FALSE, modelsLoaded |-> FALSE]
            /\ pc'[c] = "inst"
            /\ instCount' = instCount + 1
            /\ instInFlight' = 1
            /\ inst'[c] = instCount' /\ inst'[c] # openscad.module
       /\ (Quiescent(c) /\ attempts[c] = 2 /\ pc[c] = "inst" /\ ~openscad.modelsLoaded
             /\ pc'[c] # "inst" /\ openscad'.loaded) =>
            /\ openscad'.module = inst[c]
            /\ inst[c] \notin preloaded
            /\ pc'[c] = "models" /\ idx'[c] = 1
            /\ instCount' = instCount]_vars

C4_Witness ==
  \E c \in Callers :
    /\ Quiescent(c) /\ attempts[c] = 2 /\ pc[c] = "models"
    /\ instCount = 2 /\ openscad.module = 2 /\ ~openscad.modelsLoaded

\* C5: once the session is Unavailable it stays Unavailable.
C5_UnavailableIsTerminal == [][openscad.unavailable => openscad'.unavailable]_vars

\* C6: the steps of one runOnce (model.scad written, fonts set up, callMain
\* still to come) are never interleaved with those of another call.
C6_OneCompileInFlight ==
  \A c \in Callers : \A d \in Others(c) : ~(pc[c] = "font" /\ pc[d] = "font")

\* C7: with the session Unavailable, updateModel's ensureOpenSCADModule call
\* returns null at once (no lookup, no instantiation, session untouched), and
\* compileSCADToSTL called in such a state fails with 'module not loaded'
\* after one runOnce, without a compiler call and without a retry.
C7_UnavailableFailsFast ==
  [][\A c \in Callers :
       /\ (openscad.unavailable /\ pc[c] = "idle" /\ pc'[c] # "idle") =>
            /\ pc'[c] = "done" /\ outcome'[c] = "fallback"
            /\ err'[c] = ErrNotAvailable
            /\ attempts'[c] = 0
            /\ openscad' = openscad
            /\ windowOpenSCAD' = windowOpenSCAD
            /\ instCount' = instCount /\ instInFlight' = instInFlight
       /\ (openscad'.unavailable /\ pc'[c] = "idle") =>
            LET r == CompileSCADToSTL(World, c)'
            IN /\ r.pc[c] = "done" /\ r.outcome[c] = "fallback"
               /\ r.err[c] = ErrNotLoaded
               /\ r.attempts[c] = 1
               /\ r.calls = calls'
               /\ r.openscad = openscad'
               /\ r.instCount = instCount' /\ r.instInFlight = instInFlight']_vars

C7_Witness ==
  \E c \in Callers : \E d \in Others(c) :
    /\ openscad.unavailable /\ instCount = 0
    /\ pc[d] = "done" /\ err[d] = ErrNotAvailable
    /\ pc[c] = "done" /\ err[c] = ErrNotAvailable /\ attempts[c] = 0

\* C8: a compile whose callMain returns a non-zero status fails with an error
\* carrying that status, is not retried, and leaves the session state as it was.
C8_NonZeroExit ==
  [][\A c \in Callers :
       (calls'[c] # calls[c] /\ exitStatus'.returned /\ exitStatus'.code # 0) =>
         /\ err'[c] = ErrExit(exitStatus'.code)
         /\ pc'[c] = "done" /\ outcome'[c] = "fallback"
         /\ attempts'[c] = attempts[c]
         /\ openscad' = openscad
         /\ instCount' = instCount]_vars

C8_Witness ==
  \E c \in Callers :
    /\ pc[c] = "done" /\ err[c] = ErrExit(2) /\ attempts[c] = 1
    /\ Ready /\ openscad.modelsLoaded /\ ~openscad.unavailable

C10_ShortBufferIsAscii ==
  (decoded # NoGeometry /\ ~data.isString /\ Len(data.bytes) < BinaryMinSize)
    => decoded.path = "ascii"

\* C11: a binary decode of a buffer whose declared triangle count needs more
\* bytes than the buffer holds (84 + 50*N > length) throws and returns no mesh.
C11_DeclaredCountMustFit ==
  (/\ decoded # NoGeometry /\ decoded.path = "binary"
   /\ Len(data.bytes) >= BinaryMinSize
   /\ Uint32At80(data.bytes) > (Len(data.bytes) - BinaryMinSize) \div Stride)
    => decoded.threw

\* A buffer the binary layout fits: header, count, and 50 bytes per declared
\* triangle.
FitsBinary(b) ==
  Len(b) >= BinaryMinSize /\ Uint32At80(b) <= (Len(b) - BinaryMinSize) \div Stride

\* A buffer that opens like the text format.
OpensAsAscii(b) == StartsWith(ToLowerCase(Trim(b)), SolidKeyword)

Malformed(b) == ~FitsBinary(b) /\ ~OpensAsAscii(b)

ShownMesh == displayed.geometry.kind = "mesh"

\* The decoder format detection selects for a byte buffer.
ChosenDecoder(b) == IF looksLikeASCII(b) THEN "ascii" ELSE "binary"

C13_MalformedOutputFails == ShownMesh => ~Malformed(displayed.geometry.source)

\* C14: decoding trianglesToAsciiSTL(M, "x"), given as text or as its bytes,
\* gives back the vertices of M, as many and in the same order.
C14_EncodeDecodeRoundTrip ==
  reread.done => (~reread.threw /\ reread.positions = VerticesOf(reread.mesh))

\* The children of the model root that carry geometry.
GeometryChildren(children) == {i \in 1..Len(children) : children[i].tris # <<>>}

EntryOf(children, i) ==
  LET name == ComponentName(children[i], i - 1)
  IN [file |-> name \o StlSuffix, content |-> trianglesToAsciiSTL(children[i].tris, name)]

LineKeys(lines) == [i \in 1..Len(lines) |-> lines[i].key]
ScheduleIndex(k) == CHOOSE i \in 1..Len(Schedule) : Schedule[i] = k

\* The lines are a subsequence of the schedule holding every scheduled name of
\* the merged map once, and no other name.
ScheduledLines(lines, mergedKeys) ==
  /\ \A i \in 1..Len(lines) : lines[i].key \in Range(Schedule) \cap mergedKeys
  /\ \A i, j \in 1..Len(lines) :
       i < j => ScheduleIndex(lines[i].key) < ScheduleIndex(lines[j].key)
  /\ \A k \in Range(Schedule) \cap mergedKeys :
       Cardinality({i \in 1..Len(lines) : lines[i].key = k}) = 1

\* Override maps given with their key order: none, two scheduled names out of
\* schedule order around a name the schedule lacks, and only unscheduled names.
SampleOverrideMaps ==
  {[keys |-> <<>>, map |-> NoOverrides],
   [keys |-> <<"print_thumb", "palm_width", "mirrored">>,
    map |-> [k \in {"print_thumb", "palm_width", "mirrored"} |->
               IF k = "palm_width" THEN Num(80 * Unit) ELSE Bool(TRUE)]],
   [keys |-> <<"joint_clearance", "palm_length">>,
    map |-> [k \in {"joint_clearance", "palm_length"} |-> Num(Unit)]]}

\* C16: the assignment lines buildAssignmentString produces are a subsequence
\* of the canonical schedule: every scheduled name of the merged map appears
\* exactly once, in schedule order whatever the key order of the inputs, and a
\* name outside the schedule (palm_width, palm_length, joint_clearance, an
\* extra override key) never appears.
C16_AssignmentsFollowSchedule ==
  scad.made =>
    /\ ScheduledLines(scad.text.assignments, Range(Schedule))
    /\ \A o \in SampleOverrideMaps :
         ScheduledLines(buildAssignmentString(extractParameterValues(scad.params), o.map, o.keys),
                        Range(Schedule) \cup Range(o.keys))

\* The Thumb program: all thirty names, the finger flags overridden.
C16_Witness ==
  /\ scad.made
  /\ scad.tab = TabThumb
  /\ LineKeys(scad.text.assignments) = Schedule
  /\ scad.text.assignments[ScheduleIndex("print_long_fingers")].value = FalseText
  /\ scad.text.assignments[ScheduleIndex("global_scale")].value = <<49, 46, 53>>

\* C17: for a non-empty string s the emitted literal is the first 15
\* characters of s with every double quote in them replaced by backslash-quote,
\* wrapped in double quotes; an empty or absent s gives the quoted fallback.
C17_LiteralOfFirstFifteen ==
  scad.made =>
    \A k \in Range(TextKeys) :
      scad.text.assignments[ScheduleIndex(k)].value = LiteralOfFirstChars(scad.params[k], <<>>)

\* The value readParameters uses for a non-UI key, and the value a
\* configuration gives for it (Number(v), or !!v for the flags).
UsedValue(k) == readParameters(ui, configOverrides).params[k]
GivenValue(k, v) == IF k \in Range(NumericOverrideKeys) THEN ToNumber(v) ELSE Bool(Truthy(v))

\* C18: overrides are sticky and most-recent-wins: a configuration that
\* defines a non-UI key k makes readParameters use the value it gives (a null
\* may also be read as not defining k, the value in use then staying), and
\* the value of a key some configuration set stays in use through every
\* operation that is not a configuration defining k.
C18_OverridesStick ==
  [][ \A k \in Range(NonUiKeys) :
        IF cfg'.from # "none" /\ k \in DOMAIN cfg'.map
        THEN \/ UsedValue(k)' = GivenValue(k, cfg'.map[k])
             \/ cfg'.map[k] = Null /\ UsedValue(k)' = UsedValue(k)
        ELSE k \in DOMAIN configOverrides => UsedValue(k)' = UsedValue(k) ]_vars

\* C19: snapshot round trip: after the document saveConfig wrote is applied,
\* reading the parameters again gives the key/value set of the document.
C19_SnapshotRoundTrip ==
  (cfg.from = "saved" /\ scad.made) => JsonDocument(scad.params) = cfg.map

OnlyFlattened(children) ==
  /\ \A i \in 1..Len(children) :
       (children[i].isMesh \/ children[i].isGroup) => children[i].tris = <<>>
  /\ TrianglesOfGroup(children) # <<>>

FlattenedEntry(children) ==
  [file |-> ComponentZero \o StlSuffix,
   content |-> trianglesToAsciiSTL(TrianglesOfGroup(children), ComponentZero)]

\* C21: a partitioned export of a scene in which no direct child yields a
\* triangle although the flattened root has some fills the archive with exactly
\* one entry, component_0.stl, holding all the root's triangles; the archive is
\* left without an entry only when the scene has no triangle at all, and then
\* nothing is generated or downloaded.
C21_FlattenedFallback ==
  [][/\ (exportPc = "jszip" /\ windowJSZip' /\ OnlyFlattened(scene)) =>
          /\ exportPc' = "generate"
          /\ zip' = {FlattenedEntry(scene)}
     /\ (exportPc # "generate" /\ exportPc' = "generate") => zip' # {}
     /\ (exportPc = "jszip" /\ windowJSZip' /\ exportPc' = "idle") =>
          /\ TrianglesOfGroup(scene) = <<>>
          /\ zip' = {}
          /\ download' = download
     /\ (download' # download /\ download'.kind = "zip") => download'.entries # {}]_vars

C21_Witness ==
  /\ exportPc = "generate"
  /\ OnlyFlattened(scene)
  /\ Len(scene) = MaxChildren
  /\ zip = {FlattenedEntry(scene)}

\* The print flags a tab-specific build fixes, by tab.
ForcedFlags(tab) ==
  IF tab = TabFingers
  THEN [k \in {"print_thumb", "print_thumb_phalanx"} |-> FalseText]
  ELSE IF tab = TabThumb
  THEN [k \in {"print_finger_phalanx", "print_long_fingers", "print_short_fingers",
               "print_thumb", "print_thumb_phalanx"} |->
          IF k \in {"print_thumb", "print_thumb_phalanx"} THEN TrueText ELSE FalseText]
  ELSE [k \in {} |-> FalseText]

LinesOf(lines, k) == {i \in 1..Len(lines) : lines[i].key = k}

\* C22: the text assembled for the Fingers tab assigns false to print_thumb and
\* print_thumb_phalanx, the text for the Thumb tab assigns false to
\* print_finger_phalanx, print_long_fingers and print_short_fingers and true to
\* print_thumb and print_thumb_phalanx, whatever the parameters and the loaded
\* overrides hold, and each of these names is assigned on exactly one line.
C22_TabForcesPrintFlags ==
  scad.made =>
    \A k \in DOMAIN ForcedFlags(scad.tab) :
      /\ Cardinality(LinesOf(scad.text.assignments, k)) = 1
      /\ \A i \in LinesOf(scad.text.assignments, k) :
           scad.text.assignments[i].value = ForcedFlags(scad.tab)[k]

C22_Witness ==
  /\ scad.made
  /\ scad.tab = TabThumb
  /\ "print_thumb" \in DOMAIN configOverrides
  /\ scad.params["print_thumb"] = Bool(FALSE)
  /\ scad.params["print_long_fingers"] = Bool(TRUE)
  /\ \A i \in LinesOf(scad.text.assignments, "print_thumb") :
       scad.text.assignments[i].value = TrueText

\* The number of backslashes cs ends with.
TrailingBackslashes(cs) ==
  LET others == {0} \cup {i \in 1..Len(cs) : cs[i] # 92}
  IN Len(cs) - (CHOOSE i \in others : \A j \in others : j <= i)

\* A quoted literal: quotes around at most 15 characters in which every double
\* quote follows a backslash and which do not end in an unpaired backslash.
WellFormedLiteral(lit) ==
  /\ Len(lit) >= 2 /\ lit[1] = 34 /\ lit[Len(lit)] = 34
  /\ LET content == SubSeq(lit, 2, Len(lit) - 1)
     IN /\ Len(content) <= SerialMaxLen
        /\ \A i \in 1..Len(content) : content[i] = 34 => (i > 1 /\ content[i - 1] = 92)
        /\ TrailingBackslashes(content) % 2 = 0

\* C27: every string literal of an assembled text is well formed: at most 15
\* characters between its quotes, every double quote in them preceded by its
\* escaping backslash, and no unpaired backslash before the closing quote.
C27_LiteralsWellFormed ==
  scad.made =>
    \A k \in Range(TextKeys) :
      WellFormedLiteral(scad.text.assignments[ScheduleIndex(k)].value)

\* The form after the user sets the overall_scale slider to v.
Slid(form, v) == [form EXCEPT !.slider["overall_scale"] = v]

\* C29: loading the configuration that was just saved changes nothing that
\* can be observed later: when the document saveConfig wrote for the current
\* state is applied, readParameters gives, after any move of a slider, the
\* values it would have given had the document not been applied (so that,
\* without an earlier override, global_scale keeps following overall_scale).
C29_SaveLoadIsNoOp ==
  [][ ( /\ cfg'.from = "saved"
        /\ snapshot.saved
        /\ snapshot.doc = JsonDocument(readParameters(ui, configOverrides).params) )
      => \A v \in SlideChoices :
           readParameters(Slid(ui', v), configOverrides').params
             = readParameters(Slid(ui, v), configOverrides).params ]_vars

\* A binary STL of exactly its declared size: 84 + 50*N bytes for N >= 1
\* declared triangles (written with a division, as in the decoder).
WellFormedBinary(b) ==
  /\ Len(b) >= BinaryMinSize
  /\ Uint32At80(b) >= 1
  /\ (Len(b) - BinaryMinSize) % Stride = 0
  /\ Uint32At80(b) = (Len(b) - BinaryMinSize) \div Stride

\* C28: bufferGeometryFromSTL decodes every well-formed binary buffer of N
\* triangles with the binary decoder, without an error, to 3*N vertices that
\* carry the normals stored in their records, whatever its 80-byte header holds.
C28_WellFormedBinaryDecodes ==
  (decoded # NoGeometry /\ ~data.isString /\ WellFormedBinary(data.bytes)) =>
    /\ ~decoded.threw
    /\ decoded.path = "binary"
    /\ decoded.vertices = 3 * Uint32At80(data.bytes)
    /\ decoded.normals = "stored"

\* The step is one of request c.
StepOf(c) == pc'[c] # pc[c] \/ idx'[c] # idx[c]

\* C23: the preload is best effort: a settled fetch of ensureScadModels,
\* failed or not, leaves the request in the preload or takes it on to the font
\* loop with modelsLoaded set, without an error, a fallback or the session
\* becoming unavailable; and the font loop, whatever its fetches give, ends in
\* a call of the compiler.
C23_PreloadIsBestEffort ==
  [][\A c \in Callers :
       /\ (pc[c] = "models" /\ StepOf(c)) =>
            /\ pc'[c] \in {"models", "font"}
            /\ err'[c] = err[c]
            /\ outcome'[c] = "none"
            /\ openscad'.unavailable = openscad.unavailable
            /\ pc'[c] = "font" => (openscad'.modelsLoaded /\ mod[c] \in preloaded')
       /\ (pc[c] = "font" /\ StepOf(c)) =>
            /\ openscad'.unavailable => openscad.unavailable
            /\ pc'[c] = "font" \/ calls'[c] = calls[c] + 1
            /\ idx[c] = NumFonts => calls'[c] = calls[c] + 1]_vars

C23_Witness ==
  /\ instCount = 1
  /\ gaps = {1}
  /\ openscad.modelsLoaded
  /\ ~openscad.unavailable
  /\ outcome[1] = "model"
  /\ calls[1] = 1

\* Two requests were handed the same program text.
SameText(c, d) == params[c] = params[d]

\* C24: the buffer compileSCADToSTL(src) returns is the compiler's output for
\* src: a mesh a request shows was compiled from that request's own text.
C24_OutputOfOwnSource ==
  displayed.geometry.kind = "mesh" => SameText(displayed.geometry.text, displayed.by)

\* C25: whenever modelsLoaded is set the model files have been preloaded into
\* the module instance the session holds, and no request goes on to compile on
\* an instance that did not get a preload.
C25_LoadedMeansPreloaded ==
  /\ (openscad.modelsLoaded /\ openscad.module # NoModule) => openscad.module \in preloaded
  /\ \A c \in Callers : pc[c] = "font" => mod[c] \in preloaded

\* The requests issued so far.
Issued == {c \in Callers : pc[c] # "idle"}

\* C26: once every request issued has settled, the model on display is the one
\* of the request issued last.
C26_LastRequestWins ==
  (Issued # {} /\ \A c \in Issued : pc[c] = "done") =>
    \A c \in Issued : c <= displayed.by

\* C30: after initialisation and any updates, compiled or fallback, the model
\* group holds exactly one mesh.
C30_OneMeshInGroup == Len(group) = 1

C30_Witness ==
  /\ \A c \in Callers : pc[c] = "done"
  /\ outcome[1] = "fallback"
  /\ outcome[NumCallers] = "model"
  /\ group = <<displayed>>
  /\ displayed.geometry.kind = "mesh"

====
